---- MODULE Spec2Model ----
(***************************************************************************)
(* Lost-and-found match scoring: the metadata extractor, the two scorers   *)
(* (the inline scorer of services/lostFoundService.ts and                  *)
(* calculateMatchScore of the later service revision) and the ranking      *)
(* pipeline of findPotentialMatches over the lost_found_items table.       *)
(*                                                                         *)
(* Representation.  A JavaScript string the code inspects character by     *)
(* character (title, description, category, location, image url) is a      *)
(* sequence of one-character strings.  A string the code only compares     *)
(* for equality (status, label, colorProfile, objectType, date) is a TLA+  *)
(* string.  A JavaScript number x is held as the integer x * Unit, where   *)
(* Unit is the number of minutes in a day, so that a difference of dates   *)
(* divided by the milliseconds of a day is exact for dates given to the    *)
(* minute.                                                                 *)
(***************************************************************************)
EXTENDS Integers, Sequences, FiniteSets, TLC

VARIABLES store, nextId, calls, url, meta, argA, argB, scores

vars == <<store, nextId, calls, url, meta, argA, argB, scores>>

(***************************************************************************)
(* JavaScript values                                                       *)
(***************************************************************************)
\* null / undefined in a character-sequence field
NullText == <<"<null>">>
\* null / undefined in an atomic string field
NullStr == "<null>"
\* null / undefined in an array field
NullList == <<"<null>">>

Unit == 60 * 24

\* the outcome of a call: a returned value or a raised error
Returned(v) == [threw |-> FALSE, value |-> v]
Threw == [threw |-> TRUE, value |-> <<>>]

Min(a, b) == IF a <= b THEN a ELSE b
Max(a, b) == IF a >= b THEN a ELSE b
Abs(a) == IF a >= 0 THEN a ELSE 0 - a

\* Math.round on a scaled number: the nearest integer, halves rounded up
MathRound(x) == ((2 * x + Unit) \div (2 * Unit)) * Unit

IsInteger(x) == x % Unit = 0

LowerChar(c) ==
  CASE c = "A" -> "a" [] c = "E" -> "e" [] c = "F" -> "f" [] c = "H" -> "h"
    [] c = "I" -> "i" [] c = "K" -> "k" [] c = "L" -> "l" [] c = "M" -> "m"
    [] c = "P" -> "p" [] c = "S" -> "s" [] c = "T" -> "t" [] c = "W" -> "w"
    [] OTHER -> c

\* String.prototype.toLowerCase
toLowerCase(s) == [i \in DOMAIN s |-> LowerChar(s[i])]

\* String.prototype.includes
includes(s, sub) ==
  \E i \in 0..(Len(s) - Len(sub)) : SubSeq(s, i + 1, i + Len(sub)) = sub

\* Array.prototype.includes
arrayIncludes(arr, x) == \E i \in DOMAIN arr : arr[i] = x

\* Array.prototype.filter(...).length for a predicate given as a set of kept indices
RECURSIVE CountKept(_, _)
CountKept(arr, keep) ==
  IF arr = <<>> THEN 0
  ELSE (IF keep[Len(arr)] THEN 1 ELSE 0)
       + CountKept(SubSeq(arr, 1, Len(arr) - 1), keep)

IsSpace(c) == c = " "

\* String.prototype.split(/\s+/): every maximal run of whitespace separates
\* two pieces; a leading or trailing run leaves an empty piece
RECURSIVE SplitFrom(_, _, _)
SplitFrom(s, i, cur) ==
  IF i > Len(s) THEN <<cur>>
  ELSE IF IsSpace(s[i])
       THEN IF i > 1 /\ IsSpace(s[i - 1])
            THEN SplitFrom(s, i + 1, cur)
            ELSE <<cur>> \o SplitFrom(s, i + 1, <<>>)
       ELSE SplitFrom(s, i + 1, Append(cur, s[i]))

split(s) == SplitFrom(s, 1, <<>>)

(***************************************************************************)
(* Metadata extractor (services/lostFoundService.ts)                       *)
(***************************************************************************)
\* the keywords the extractor looks for
Keywords ==
  { <<"c","a","t">>, <<"p","e","t">>, <<"d","o","g">>, <<"p","h","o","n","e">>,
    <<"m","o","b","i","l","e">>, <<"w","a","l","l","e","t">>, <<"p","u","r","s","e">>,
    <<"k","e","y">>, <<"b","l","a","c","k">>, <<"w","h","i","t","e">>,
    <<"b","l","u","e">>, <<"r","e","d">>, <<"o","r","a","n","g","e">>,
    <<"g","r","e","e","n">> }

\* a variant that keeps the initial value when no color word matches
extractColorProfileKeepsInitial(u) ==
  IF includes(u, <<"b","l","a","c","k">>) THEN "dark"
  ELSE IF includes(u, <<"w","h","i","t","e">>) THEN "light"
  ELSE IF includes(u, <<"b","l","u","e">>) THEN "cool"
  ELSE IF includes(u, <<"r","e","d">>) \/ includes(u, <<"o","r","a","n","g","e">>)
       THEN "warm"
  ELSE IF includes(u, <<"g","r","e","e","n">>) THEN "natural"
  ELSE "unknown"

\* the if / else-if chain that sets colorProfile, on the lower-cased url
extractColorProfile(u) ==
  IF includes(u, <<"b","l","a","c","k">>) THEN "dark"
  ELSE IF includes(u, <<"w","h","i","t","e">>) THEN "light"
  ELSE IF includes(u, <<"b","l","u","e">>) THEN "cool"
  ELSE IF includes(u, <<"r","e","d">>) \/ includes(u, <<"o","r","a","n","g","e">>)
       THEN "warm"
  ELSE IF includes(u, <<"g","r","e","e","n">>) THEN "natural"
  ELSE "mixed"

\* the body of the try block, for an image url that is a string
extractBody(imageUrl) ==
  LET u == toLowerCase(imageUrl)
      l1 == IF includes(u, <<"c","a","t">>) \/ includes(u, <<"p","e","t">>)
            THEN <<"cat", "pet", "animal">> ELSE <<>>
      o1 == IF l1 # <<>> THEN "animal" ELSE "item"
      l2 == IF includes(u, <<"d","o","g">>)
            THEN l1 \o <<"dog", "pet", "animal">> ELSE l1
      o2 == IF includes(u, <<"d","o","g">>) THEN "animal" ELSE o1
      isPhone == includes(u, <<"p","h","o","n","e">>)
                 \/ includes(u, <<"m","o","b","i","l","e">>)
      l3 == IF isPhone
            THEN l2 \o <<"phone", "mobile", "electronics", "device">> ELSE l2
      o3 == IF isPhone THEN "electronics" ELSE o2
      isWallet == includes(u, <<"w","a","l","l","e","t">>)
                  \/ includes(u, <<"p","u","r","s","e">>)
      l4 == IF isWallet THEN l3 \o <<"wallet", "money", "personal">> ELSE l3
      o4 == IF isWallet THEN "personal" ELSE o3
      isKey == includes(u, <<"k","e","y">>)
      l5 == IF isKey THEN l4 \o <<"key", "access", "personal">> ELSE l4
      o5 == IF isKey THEN "personal" ELSE o4
      color == extractColorProfile(u)
      labels == IF Len(l5) = 0 THEN <<"item", "object", "lost-found">> ELSE l5
  IN [labels |-> labels, colorProfile |-> color, objectType |-> o5]

\* the catch block: imageUrl.toLowerCase() raises when imageUrl is not a string
extractCatch ==
  [labels |-> <<"item", "object">>, colorProfile |-> "unknown", objectType |-> "item"]

extractRaises(imageUrl) == imageUrl = NullText

extractImageMetadata(imageUrl) ==
  IF extractRaises(imageUrl) THEN extractCatch ELSE extractBody(imageUrl)

(***************************************************************************)
(* Records                                                                 *)
(***************************************************************************)
\* a row of the lost_found_items table (interface LostFoundItem)
DbRow(id, status, category, title, description, location, date, image_url, tags) ==
  [id |-> id, status |-> status, category |-> category, title |-> title,
   description |-> description, location |-> location, date |-> date,
   image_url |-> image_url, is_matched |-> FALSE, match_confidence |-> 0,
   matches |-> <<>>, created_at |-> id,
   image_labels |-> tags.labels, color_profile |-> tags.colorProfile,
   object_type |-> tags.objectType]

\* the columns of a row written by a revision that stores no metadata
NoTags == [labels |-> NullList, colorProfile |-> NullStr, objectType |-> NullStr]

\* mapDbItemToItemDetails (services/lostFoundService.ts)
mapDbItemToItemDetails(item) ==
  [imageUrl |-> item.image_url,
   colorProfile |-> IF item.color_profile = "" THEN NullStr ELSE item.color_profile,
   objectType |-> IF item.object_type = "" THEN NullStr ELSE item.object_type,
   id |-> item.id, status |-> item.status, category |-> item.category,
   title |-> item.title, description |-> item.description,
   location |-> item.location, date |-> item.date,
   matches |-> item.matches,
   isMatched |-> item.is_matched,
   matchConfidence |-> item.match_confidence,
   imageLabels |-> IF item.image_labels = NullList THEN <<>> ELSE item.image_labels]

(***************************************************************************)
(* Dates                                                                   *)
(***************************************************************************)
\* new Date(s).getTime(), in minutes since 2024-01-01T00:00Z; nan for a string
\* Date cannot parse
DateGetTime(s) ==
  CASE s = "2024-01-10"           -> [nan |-> FALSE, t |-> 9 * Unit]
    [] s = "2024-01-10T12:00:00Z" -> [nan |-> FALSE, t |-> 9 * Unit + 12 * 60]
    [] s = "2024-01-11"           -> [nan |-> FALSE, t |-> 10 * Unit]
    [] s = "2024-01-14"           -> [nan |-> FALSE, t |-> 13 * Unit]
    [] s = "2024-01-18"           -> [nan |-> FALSE, t |-> 17 * Unit]
    [] s = "2024-02-09"           -> [nan |-> FALSE, t |-> 39 * Unit]
    [] OTHER                      -> [nan |-> TRUE, t |-> 0]

(***************************************************************************)
(* Scorer of services/lostFoundService.ts (the callback of items.map)      *)
(***************************************************************************)
\* item.imageLabels || [], item.colorProfile || "unknown", item.objectType || "item"
StoredMetadata(item) ==
  [labels |-> IF item.imageLabels = NullList THEN <<>> ELSE item.imageLabels,
   colorProfile |-> IF item.colorProfile \in {NullStr, ""} THEN "unknown"
                    ELSE item.colorProfile,
   objectType |-> IF item.objectType \in {NullStr, ""} THEN "item"
                  ELSE item.objectType]

\* the metadata findPotentialMatches scores the query with
QueryMetadata(item) ==
  IF Len(StoredMetadata(item).labels) = 0
  THEN extractImageMetadata(item.imageUrl)
  ELSE StoredMetadata(item)

\* a variant in which a date that cannot be parsed raises as well
ScoreRaisesOnBadDate(item, potentialMatch) ==
  \/ potentialMatch.location = NullText \/ item.location = NullText
  \/ DateGetTime(item.date).nan \/ DateGetTime(potentialMatch.date).nan

\* potentialMatch.location.toLowerCase() / item.location.toLowerCase() raise
\* a TypeError on null
ScoreRaises(item, potentialMatch) ==
  potentialMatch.location = NullText \/ item.location = NullText

ServiceDatePoints(d1, d2) ==
  LET itemDate == DateGetTime(d1)
      matchDate == DateGetTime(d2)
      daysDifference == Abs(itemDate.t - matchDate.t)
  IN IF itemDate.nan \/ matchDate.nan THEN 0
     ELSE IF daysDifference <= 7 * Unit
          THEN Max(0, 10 * Unit - daysDifference)
          ELSE 0

ServiceLabelOverlap(labels, potentialMatchLabels) ==
  CountKept(labels, [i \in DOMAIN labels |-> arrayIncludes(potentialMatchLabels, labels[i])])

ServiceLocationMatch(item, potentialMatch) ==
  \/ includes(toLowerCase(potentialMatch.location), toLowerCase(item.location))
  \/ includes(toLowerCase(item.location), toLowerCase(potentialMatch.location))

ServiceCap(score) == IF score > 100 * Unit THEN 100 * Unit ELSE score

ServiceScore(item, imageMetadata, potentialMatch) ==
  LET s1 == IF potentialMatch.category = item.category THEN 40 * Unit ELSE 0
      s2 == s1 + ServiceLabelOverlap(imageMetadata.labels, potentialMatch.imageLabels)
                   * 15 * Unit
      s3 == s2 + (IF potentialMatch.colorProfile = imageMetadata.colorProfile
                  THEN 10 * Unit ELSE 0)
      s4 == s3 + (IF potentialMatch.objectType = imageMetadata.objectType
                  THEN 20 * Unit ELSE 0)
      s5 == s4 + ServiceDatePoints(item.date, potentialMatch.date)
      s6 == s5 + (IF ServiceLocationMatch(item, potentialMatch) THEN 15 * Unit ELSE 0)
  IN ServiceCap(s6)

(***************************************************************************)
(* calculateMatchScore of the later service revision                       *)
(***************************************************************************)
\* a toLowerCase() on a null category, title, description or location raises
CalcRaises(item1, item2) ==
  \E it \in {item1, item2} :
    \/ it.category = NullText \/ it.title = NullText
    \/ it.description = NullText \/ it.location = NullText

\* words1.filter(word => word.length > 3 && words2.includes(word)).length
CommonWords(text1, text2) ==
  LET words1 == split(toLowerCase(text1))
      words2 == split(toLowerCase(text2))
  IN CountKept(words1, [i \in DOMAIN words1 |->
                          Len(words1[i]) > 3 /\ arrayIncludes(words2, words1[i])])

\* a variant whose second step has no upper limit
CalcDatePointsNoWindow(d1, d2) ==
  LET date1 == DateGetTime(d1)
      date2 == DateGetTime(d2)
      daysDiff == Abs(date1.t - date2.t)
  IN IF date1.nan \/ date2.nan THEN 0
     ELSE IF daysDiff <= 3 * Unit THEN 10 * Unit
     ELSE 5 * Unit

\* the try block around the date comparison
CalcDatePoints(d1, d2) ==
  LET date1 == DateGetTime(d1)
      date2 == DateGetTime(d2)
      daysDiff == Abs(date1.t - date2.t)
  IN IF date1.nan \/ date2.nan THEN 0
     ELSE IF daysDiff <= 3 * Unit THEN 10 * Unit
     ELSE IF daysDiff <= 7 * Unit THEN 5 * Unit
     ELSE 0

\* a variant that takes every stored tag for a missing one
TruthyNever(str) == FALSE

\* a string in a condition: null, undefined and "" are falsy
Truthy(str) == str # NullStr /\ str # ""

CalcCommonLabels(labels1, labels2) ==
  CountKept(labels1, [i \in DOMAIN labels1 |-> arrayIncludes(labels2, labels1[i])])

calculateMatchScore(item1, item2) ==
  LET s1 == IF toLowerCase(item1.category) = toLowerCase(item2.category)
            THEN 30 * Unit ELSE 0
      s2 == s1 + CommonWords(item1.title, item2.title) * 10 * Unit
      s3 == s2 + Min(CommonWords(item1.description, item2.description) * 5 * Unit,
                     20 * Unit)
      s4 == s3 + (IF toLowerCase(item1.location) = toLowerCase(item2.location)
                  THEN 15 * Unit ELSE 0)
      s5 == s4 + CalcDatePoints(item1.date, item2.date)
      s6 == s5 + (IF Truthy(item1.color_profile) /\ Truthy(item2.color_profile)
                     /\ item1.color_profile = item2.color_profile
                  THEN 10 * Unit ELSE 0)
      s7 == s6 + (IF Truthy(item1.object_type) /\ Truthy(item2.object_type)
                     /\ item1.object_type = item2.object_type
                  THEN 15 * Unit ELSE 0)
      s8 == s7 + (IF item1.image_labels # NullList /\ item2.image_labels # NullList
                  THEN Min(CalcCommonLabels(item1.image_labels, item2.image_labels)
                             * 5 * Unit, 20 * Unit)
                  ELSE 0)
  IN Min(MathRound(s8), 100 * Unit)

(***************************************************************************)
(* Inputs of the extractor check                                           *)
(***************************************************************************)
MaxFrags == 2

UrlFragments ==
  { <<"i","m","g","/">>, <<"c","a","t">>, <<"P","h","o","n","e">>,
    <<"b","l","a","c","k">>, <<"r","e","d">>, <<"k","e","y">>,
    <<"d","o","g">>, <<"W","H","I","T","E">> }

RECURSIVE UrlsOf(_)
UrlsOf(n) ==
  IF n = 0 THEN { <<>> }
  ELSE UrlsOf(n - 1) \cup { u \o f : u \in UrlsOf(n - 1), f \in UrlFragments }

Urls == UrlsOf(MaxFrags) \cup { NullText }

NoMeta == [labels |-> <<>>, colorProfile |-> "", objectType |-> ""]

InitExtract ==
  /\ url \in Urls
  /\ meta = NoMeta
  /\ store = <<>> /\ nextId = 1 /\ calls = <<>>
  /\ argA = <<>> /\ argB = <<>> /\ scores = <<>>

ExtractStep ==
  /\ meta = NoMeta
  /\ meta' = extractImageMetadata(url)
  /\ UNCHANGED <<store, nextId, calls, url, argA, argB, scores>>

NextExtract == ExtractStep

SpecExtract == InitExtract /\ [][NextExtract]_vars

(***************************************************************************)
(* Inputs of the scorer check: rows as createItem stores them (tagged by   *)
(* the extractor) and rows stored without metadata                         *)
(***************************************************************************)
TaggedRow(status, category, title, description, location, date, image_url) ==
  DbRow(0, status, category, title, description, location, date, image_url,
        extractImageMetadata(image_url))

UntaggedRow(status, category, title, description, location, date, image_url) ==
  DbRow(0, status, category, title, description, location, date, image_url, NoTags)

\* a row whose tags the caller of the later revision's createItem supplied
SuppliedRow(status, category, title, description, location, date, image_url, tags) ==
  DbRow(0, status, category, title, description, location, date, image_url, tags)

ScoreItems ==
  LET Electronics == <<"E","l","e","c","t","r","o","n","i","c","s">>
      electronics == <<"e","l","e","c","t","r","o","n","i","c","s">>
      Keys == <<"K","e","y","s">>
      Pets == <<"P","e","t","s">>
      lostBlackPhone == <<"L","o","s","t"," ","b","l","a","c","k"," ","p","h","o","n","e">>
      foundBlackPhone == <<"F","o","u","n","d"," ","b","l","a","c","k"," ","p","h","o","n","e">>
      blackBlackPhone == <<"b","l","a","c","k"," ","b","l","a","c","k"," ","p","h","o","n","e">>
      redKey == <<"r","e","d"," ","k","e","y">>
      tabbyCat == <<"T","a","b","b","y"," ","c","a","t">>
      crackedScreen == <<"c","r","a","c","k","e","d"," ","s","c","r","e","e","n">>
      screenCracked == <<"S","c","r","e","e","n"," "," ","c","r","a","c","k","e","d">>
      oldBrass == <<"o","l","d"," ","b","r","a","s","s">>
      mainStreet == <<"M","a","i","n"," ","S","t","r","e","e","t">>
      mainStreetStation == <<"M","a","i","n"," ","S","t","r","e","e","t"," ","S","t","a","t","i","o","n">>
      airport == <<"A","i","r","p","o","r","t">>
      phoneBlackUrl == <<"P","h","o","n","e","b","l","a","c","k">>
      mobileBlackUrl == <<"m","o","b","i","l","e","-","b","l","a","c","k">>
      keyRedUrl == <<"k","e","y","r","e","d">>
      catDogUrl == <<"c","a","t","d","o","g">>
      catUrl == <<"c","a","t">>
      plainUrl == <<"i","m","g","/","1">>
      greyTablet == <<"g","r","e","y"," ","t","a","b","l","e","t">>
  IN { TaggedRow("lost", Electronics, lostBlackPhone, crackedScreen, mainStreet,
                 "2024-01-10", phoneBlackUrl),
       SuppliedRow("found", Electronics, greyTablet, oldBrass, airport, "2024-02-09",
                   plainUrl,
                   [labels |-> <<"tablet">>, colorProfile |-> "dark",
                    objectType |-> "electronics"]),
       SuppliedRow("lost", Pets, greyTablet, oldBrass, airport, "2024-02-09", plainUrl,
                   [labels |-> <<"tablet">>, colorProfile |-> NullStr,
                    objectType |-> NullStr]),
       TaggedRow("found", Electronics, foundBlackPhone, screenCracked,
                 mainStreetStation, "2024-01-11", mobileBlackUrl),
       UntaggedRow("found", electronics, blackBlackPhone, crackedScreen, airport,
                   "2024-01-10T12:00:00Z", plainUrl),
       TaggedRow("found", Keys, redKey, oldBrass, airport, "2024-02-09", keyRedUrl),
       TaggedRow("lost", Keys, redKey, oldBrass, mainStreet, "2024-01-18", plainUrl),
       TaggedRow("lost", Pets, tabbyCat, oldBrass, airport, "last tuesday", catDogUrl),
       TaggedRow("found", Pets, tabbyCat, crackedScreen, mainStreet, "2024-01-14", catUrl),
       UntaggedRow("found", Pets, tabbyCat, oldBrass, NullText, "2024-01-14", NullText),
       UntaggedRow("lost", electronics, lostBlackPhone, oldBrass, <<>>, "2024-01-11",
                   NullText) }

\* the score the service computes for candidate row c when asked about row q
ServiceScoreOf(q, c) ==
  LET item == mapDbItemToItemDetails(q)
      potentialMatch == mapDbItemToItemDetails(c)
  IN IF ScoreRaises(item, potentialMatch) THEN Threw
     ELSE Returned(ServiceScore(item, QueryMetadata(item), potentialMatch))

\* the score the later revision computes for candidate row c when asked about row q
CalcScoreOf(q, c) ==
  IF CalcRaises(q, c) THEN Threw ELSE Returned(calculateMatchScore(q, c))

NoScores == <<>>

InitScore ==
  /\ argA \in ScoreItems
  /\ argB \in ScoreItems
  /\ scores = NoScores
  /\ store = <<>> /\ nextId = 1 /\ calls = <<>>
  /\ url = <<>> /\ meta = NoMeta

ScoreStep ==
  /\ scores = NoScores
  /\ scores' = [svc |-> ServiceScoreOf(argA, argB),
                svcRev |-> ServiceScoreOf(argB, argA),
                svcSelf |-> ServiceScoreOf(argA, argA),
                calc |-> CalcScoreOf(argA, argB),
                calcRev |-> CalcScoreOf(argB, argA),
                calcSelf |-> CalcScoreOf(argA, argA)]
  /\ UNCHANGED <<store, nextId, calls, url, meta, argA, argB>>

NextScore == ScoreStep

SpecScore == InitScore /\ [][NextScore]_vars

(***************************************************************************)
(* The lost_found_items table and the calls in flight                      *)
(***************************************************************************)
\* a variant that puts the later of two equal keys first
RankDescTiesReversed(keys, i) ==
  1 + Cardinality({ j \in DOMAIN keys :
                      keys[j] > keys[i] \/ (keys[j] = keys[i] /\ j > i) })

\* position of element i after a stable sort of keys into descending order
RankDesc(keys, i) ==
  1 + Cardinality({ j \in DOMAIN keys :
                      keys[j] > keys[i] \/ (keys[j] = keys[i] /\ j < i) })

\* Array.prototype.sort((a, b) => key(b) - key(a)), which ECMAScript requires
\* to be stable; also ORDER BY ... DESC over distinct keys
SortDesc(seq, keys) ==
  [k \in 1..Len(seq) |-> seq[CHOOSE i \in 1..Len(seq) : RankDesc(keys, i) = k]]

\* Array.prototype.slice(0, n)
slice(seq, n) == SubSeq(seq, 1, Min(n, Len(seq)))

\* item.status === "lost" ? "found" : "lost"
oppositeStatus(item) == IF item.status = "lost" THEN "found" ELSE "lost"

\* a variant without .eq('status', s)
SelectCandidatesAnyStatus(rows, s) ==
  LET Keep(r) == r.is_matched = FALSE
      kept == SelectSeq(rows, Keep)
  IN SortDesc(kept, [i \in DOMAIN kept |-> kept[i].created_at])

\* .select('*').eq('status', s).eq('is_matched', false)
\*   .order('created_at', { ascending: false })
SelectCandidates(rows, s) ==
  LET Keep(r) == r.status = s /\ r.is_matched = FALSE
      kept == SelectSeq(rows, Keep)
  IN SortDesc(kept, [i \in DOMAIN kept |-> kept[i].created_at])

Callers == {"c1", "c2"}

IdleCall ==
  [threw |-> FALSE, item |-> <<>>, imageMetadata |-> NoMeta,
   pc |-> "idle", rev |-> "", data |-> <<>>, error |-> FALSE, result |-> <<>>]

\* items.map(potentialMatch => ({ ...potentialMatch, matchConfidence: score }))
ServiceScored(item, imageMetadata, items) ==
  [i \in DOMAIN items |->
     [items[i] EXCEPT !.matchConfidence = ServiceScore(item, imageMetadata, items[i])]]

\* a variant that keeps every scored candidate
ServiceFilterKeepsAll(scored) == scored

\* a variant whose floor is exclusive
ServiceFilterStrict(scored) ==
  LET Decent(match) == match.matchConfidence > 40 * Unit
  IN SelectSeq(scored, Decent)

\* .filter(match => match.matchConfidence >= 40)
ServiceFilter(scored) ==
  LET Decent(match) == match.matchConfidence >= 40 * Unit
  IN SelectSeq(scored, Decent)

\* a variant whose comparator is a.matchConfidence - b.matchConfidence
ServiceSortAscending(kept) ==
  SortDesc(kept, [i \in DOMAIN kept |-> 0 - kept[i].matchConfidence])

\* .sort((a, b) => b.matchConfidence! - a.matchConfidence!)
ServiceSort(kept) ==
  SortDesc(kept, [i \in DOMAIN kept |-> kept[i].matchConfidence])

\* a variant that leaves out the candidates whose scoring raises and ranks
\* the others
ServiceRankSkipsFailing(item, imageMetadata, data, error) ==
  LET items == [i \in DOMAIN data |-> mapDbItemToItemDetails(data[i])]
      Scorable(potentialMatch) == ~ScoreRaises(item, potentialMatch)
      potentialMatches ==
        ServiceSort(ServiceFilter(
          ServiceScored(item, imageMetadata, SelectSeq(items, Scorable))))
  IN IF error THEN Returned(<<>>)
     ELSE Returned(slice(potentialMatches, 5))

\* findPotentialMatches of services/lostFoundService.ts, from the response of
\* the store to the return
ServiceRank(item, imageMetadata, data, error) ==
  LET items == [i \in DOMAIN data |-> mapDbItemToItemDetails(data[i])]
      potentialMatches ==
        ServiceSort(ServiceFilter(ServiceScored(item, imageMetadata, items)))
  IN IF error THEN Returned(<<>>)
     ELSE IF \E i \in DOMAIN items : ScoreRaises(item, items[i]) THEN Returned(<<>>)
     ELSE Returned(slice(potentialMatches, 5))

\* a variant that treats an empty answer of the store as a failure
CalcRankEmptyThrows(item, data, error) ==
  LET potentialMatches ==
        [i \in DOMAIN data |->
           [data[i] EXCEPT !.match_confidence = calculateMatchScore(item, data[i])]]
      Significant(match) == match.match_confidence >= 50 * Unit
      kept == SelectSeq(potentialMatches, Significant)
  IN IF error \/ Len(data) = 0 THEN Threw
     ELSE IF \E i \in DOMAIN data : CalcRaises(item, data[i]) THEN Threw
     ELSE Returned(SortDesc(kept, [i \in DOMAIN kept |-> kept[i].match_confidence]))

\* findPotentialMatches of the later service revision, from the response of
\* the store to the return or the rethrown error
CalcRank(item, data, error) ==
  LET potentialMatches ==
        [i \in DOMAIN data |->
           [data[i] EXCEPT !.match_confidence = calculateMatchScore(item, data[i])]]
      Significant(match) == match.match_confidence >= 50 * Unit
      kept == SelectSeq(potentialMatches, Significant)
      significantMatches ==
        SortDesc(kept, [i \in DOMAIN kept |-> kept[i].match_confidence])
  IN IF error THEN Threw
     ELSE IF Len(data) = 0 THEN Returned(<<>>)
     ELSE IF \E i \in DOMAIN data : CalcRaises(item, data[i]) THEN Threw
     ELSE Returned(significantMatches)

\* the call enters findPotentialMatches and runs to its first await
FindStart(c, rev, item) ==
  /\ calls[c].pc = "idle"
  /\ calls' = [calls EXCEPT ![c] =
       [IdleCall EXCEPT
          !.rev = rev, !.item = item,
          !.imageMetadata = IF rev = "svc" THEN StoredMetadata(item) ELSE NoMeta,
          !.pc = IF rev = "svc" /\ Len(StoredMetadata(item).labels) = 0
                 THEN "extract" ELSE "query"]]
  /\ UNCHANGED <<store, nextId, url, meta, argA, argB, scores>>

\* a variant that keeps imageMetadata in a variable of the module, shared by
\* every call in flight
FindExtractShared(c) ==
  /\ calls[c].pc = "extract"
  /\ calls' = [d \in Callers |->
       IF d = c
       THEN [calls[d] EXCEPT
               !.imageMetadata = extractImageMetadata(calls[c].item.imageUrl),
               !.pc = "query"]
       ELSE IF calls[d].pc \in {"query", "respond"} /\ calls[d].rev = "svc"
            THEN [calls[d] EXCEPT
                    !.imageMetadata = extractImageMetadata(calls[c].item.imageUrl)]
            ELSE calls[d]]
  /\ UNCHANGED <<store, nextId, url, meta, argA, argB, scores>>

\* await extractImageMetadata(item.imageUrl)
FindExtract(c) ==
  /\ calls[c].pc = "extract"
  /\ calls' = [calls EXCEPT
       ![c].imageMetadata = extractImageMetadata(calls[c].item.imageUrl),
       ![c].pc = "query"]
  /\ UNCHANGED <<store, nextId, url, meta, argA, argB, scores>>

\* a variant whose select has no order clause, so that the store answers one
\* caller newest first and the other oldest first
FindQueryUnordered(c, fails) ==
  /\ calls[c].pc = "query"
  /\ LET answer == SelectCandidates(store, oppositeStatus(calls[c].item))
         n == Len(answer)
     IN calls' = [calls EXCEPT
          ![c].data = IF fails THEN <<>>
                      ELSE IF c = "c1" THEN answer
                      ELSE [i \in 1..n |-> answer[n + 1 - i]],
          ![c].error = fails,
          ![c].pc = "respond"]
  /\ UNCHANGED <<store, nextId, url, meta, argA, argB, scores>>

\* the store evaluates the select, or fails
FindQuery(c, fails) ==
  /\ calls[c].pc = "query"
  /\ calls' = [calls EXCEPT
       ![c].data = IF fails THEN <<>>
                   ELSE SelectCandidates(store, oppositeStatus(calls[c].item)),
       ![c].error = fails,
       ![c].pc = "respond"]
  /\ UNCHANGED <<store, nextId, url, meta, argA, argB, scores>>

\* a variant that writes each score into the record the store returned
\* instead of into a copy
FindFinishInPlace(c) ==
  /\ calls[c].pc = "respond"
  /\ LET out == IF calls[c].rev = "svc"
                THEN ServiceRank(calls[c].item, calls[c].imageMetadata,
                                 calls[c].data, calls[c].error)
                ELSE CalcRank(calls[c].item, calls[c].data, calls[c].error)
         Scored(row) ==
           IF calls[c].rev = "svc"
           THEN ServiceScore(calls[c].item, calls[c].imageMetadata,
                             mapDbItemToItemDetails(row))
           ELSE calculateMatchScore(calls[c].item, row)
     IN calls' = [calls EXCEPT
          ![c].result = out.value, ![c].threw = out.threw, ![c].pc = "done",
          ![c].data = [i \in DOMAIN calls[c].data |->
                         [calls[c].data[i] EXCEPT
                            !.match_confidence = Scored(calls[c].data[i])]]]
  /\ UNCHANGED <<store, nextId, url, meta, argA, argB, scores>>

\* the response arrives: score, filter, sort, truncate, return
FindFinish(c) ==
  /\ calls[c].pc = "respond"
  /\ LET out == IF calls[c].rev = "svc"
                THEN ServiceRank(calls[c].item, calls[c].imageMetadata,
                                 calls[c].data, calls[c].error)
                ELSE CalcRank(calls[c].item, calls[c].data, calls[c].error)
     IN calls' = [calls EXCEPT ![c].result = out.value, ![c].threw = out.threw,
                               ![c].pc = "done"]
  /\ UNCHANGED <<store, nextId, url, meta, argA, argB, scores>>

\* the caller takes the result
FindReturn(c) ==
  /\ calls[c].pc = "done"
  /\ calls' = [calls EXCEPT ![c] = IdleCall]
  /\ UNCHANGED <<store, nextId, url, meta, argA, argB, scores>>

\* the score of an entry of a result
EntryScore(rev, entry) ==
  IF rev = "svc" THEN entry.matchConfidence ELSE entry.match_confidence

\* the floor and the limit of each revision
Floor(rev) == IF rev = "svc" THEN 40 * Unit ELSE 50 * Unit

(***************************************************************************)
(* Ranking over candidate pools                                            *)
(***************************************************************************)
MaxPool == 6

RankRows ==
  LET Electronics == <<"E","l","e","c","t","r","o","n","i","c","s">>
      Keys == <<"K","e","y","s">>
      lostBlackPhone == <<"L","o","s","t"," ","b","l","a","c","k"," ","p","h","o","n","e">>
      foundBlackPhone == <<"F","o","u","n","d"," ","b","l","a","c","k"," ","p","h","o","n","e">>
      redKey == <<"r","e","d"," ","k","e","y">>
      crackedScreen == <<"c","r","a","c","k","e","d"," ","s","c","r","e","e","n">>
      oldBrass == <<"o","l","d"," ","b","r","a","s","s">>
      mainStreet == <<"M","a","i","n"," ","S","t","r","e","e","t">>
      mainStreetStation == <<"M","a","i","n"," ","S","t","r","e","e","t"," ","S","t","a","t","i","o","n">>
      airport == <<"A","i","r","p","o","r","t">>
      phoneBlackUrl == <<"P","h","o","n","e","b","l","a","c","k">>
      keyRedUrl == <<"k","e","y","r","e","d">>
      plainUrl == <<"i","m","g","/","1">>
  IN [lostPhone |-> TaggedRow("lost", Electronics, lostBlackPhone, crackedScreen,
                              mainStreet, "2024-01-10", phoneBlackUrl),
      foundPhone |-> TaggedRow("found", Electronics, foundBlackPhone, crackedScreen,
                               mainStreetStation, "2024-01-11", phoneBlackUrl),
      foundPhoneFar |-> UntaggedRow("found", Electronics, foundBlackPhone, oldBrass,
                                    airport, "2024-01-14", plainUrl),
      foundKey |-> TaggedRow("found", Keys, redKey, oldBrass, airport,
                             "2024-02-09", keyRedUrl)]

\* a found report that carries no image and no metadata
FoundNoImage ==
  UntaggedRow("found", RankRows.lostPhone.category, RankRows.foundPhone.title,
              RankRows.foundKey.description, RankRows.lostPhone.location,
              "2024-01-11", NullText)

RankKinds == DOMAIN RankRows

\* the table holding one row of each listed kind, created in that order
PoolOf(kinds) ==
  [i \in DOMAIN kinds |-> [RankRows[kinds[i]] EXCEPT !.id = i, !.created_at = i]]

\* the tables of at most max rows
Pools(max) == UNION { { PoolOf(k) : k \in [1..n -> RankKinds] } : n \in 0..max }

RankQueries == { RankRows.lostPhone, FoundNoImage }

\* the item as the revision's caller holds it
QueryItem(rev, row) == IF rev = "svc" THEN mapDbItemToItemDetails(row) ELSE row

InitRank ==
  /\ store \in Pools(MaxPool)
  /\ nextId = Len(store) + 1
  /\ calls = [c \in Callers |-> IdleCall]
  /\ url = <<>> /\ meta = NoMeta
  /\ argA = <<>> /\ argB = <<>> /\ scores = NoScores

NextRank ==
  \/ \E rev \in {"svc", "calc"}, q \in RankQueries : FindStart("c1", rev, QueryItem(rev, q))
  \/ FindExtract("c1")
  \/ \E fails \in BOOLEAN : FindQuery("c1", fails)
  \/ FindFinish("c1")

SpecRank == InitRank /\ [][NextRank]_vars

(***************************************************************************)
(* The service as a whole: reports are created and updated while callers   *)
(* look for matches                                                        *)
(***************************************************************************)
MaxItems == 3

\* what the report forms hand to createItem
ReportInputs ==
  { [imageUrl |-> r.image_url, status |-> r.status, category |-> r.category,
     title |-> r.title, description |-> r.description,
     location |-> r.location, date |-> r.date] :
    r \in { RankRows.lostPhone, RankRows.foundPhone, RankRows.foundKey } }

\* createItem (services/lostFoundService.ts): tag the report and insert it
createItem(item) ==
  /\ Len(store) < MaxItems
  /\ store' = Append(store,
       [DbRow(nextId, item.status, item.category, item.title, item.description,
              item.location, item.date, item.imageUrl,
              extractImageMetadata(item.imageUrl))
          EXCEPT !.match_confidence =
                   IF "matchConfidence" \in DOMAIN item THEN item.matchConfidence
                   ELSE 0])
  /\ nextId' = nextId + 1
  /\ UNCHANGED <<calls, url, meta, argA, argB, scores>>

\* what the page persists for a report once a match is accepted
UpdatePayloads == { [isMatched |-> TRUE, matchConfidence |-> 75 * Unit] }

TruthyText(t) == t # NullText /\ t # <<>>

Has(updates, f) == f \in DOMAIN updates

\* the row after .update(dbUpdates), dbUpdates built field by field
ApplyUpdates(row, updates) ==
  [row EXCEPT
     !.title = IF Has(updates, "title") /\ TruthyText(updates.title)
               THEN updates.title ELSE @,
     !.description = IF Has(updates, "description") /\ TruthyText(updates.description)
                     THEN updates.description ELSE @,
     !.category = IF Has(updates, "category") /\ TruthyText(updates.category)
                  THEN updates.category ELSE @,
     !.location = IF Has(updates, "location") /\ TruthyText(updates.location)
                  THEN updates.location ELSE @,
     !.date = IF Has(updates, "date") /\ Truthy(updates.date) THEN updates.date ELSE @,
     !.image_url = IF Has(updates, "imageUrl") /\ TruthyText(updates.imageUrl)
                   THEN updates.imageUrl ELSE @,
     !.is_matched = IF Has(updates, "isMatched") THEN updates.isMatched ELSE @,
     !.match_confidence = IF Has(updates, "matchConfidence")
                          THEN updates.matchConfidence ELSE @,
     !.matches = IF Has(updates, "matches") /\ updates.matches # NullList
                 THEN updates.matches ELSE @]

\* updateItem (services/lostFoundService.ts)
updateItem(id, updates) ==
  /\ \E i \in DOMAIN store :
       /\ store[i].id = id
       /\ store' = [store EXCEPT ![i] = ApplyUpdates(store[i], updates)]
       /\ store' # store
  /\ UNCHANGED <<nextId, calls, url, meta, argA, argB, scores>>

Init ==
  /\ store = <<>>
  /\ nextId = 1
  /\ calls = [c \in Callers |-> IdleCall]
  /\ url = <<>> /\ meta = NoMeta
  /\ argA = <<>> /\ argB = <<>> /\ scores = NoScores

\* reports a caller holds that are not in the table
UnsavedReports == { FoundNoImage }

StoredRows == { store[i] : i \in DOMAIN store }

Next ==
  \/ \E item \in ReportInputs : createItem(item)
  \/ \E i \in DOMAIN store, updates \in UpdatePayloads : updateItem(store[i].id, updates)
  \/ \E rev \in {"svc", "calc"}, r \in StoredRows \cup UnsavedReports :
       FindStart("c1", rev, QueryItem(rev, r))
  \/ FindExtract("c1")
  \/ \E fails \in BOOLEAN : FindQuery("c1", fails)
  \/ FindFinish("c1")
  \/ FindReturn("c1")

Spec == Init /\ [][Next]_vars

(***************************************************************************)
(* The table under arbitrary updates, through updateItem of either         *)
(* revision                                                                *)
(***************************************************************************)
\* update payloads a caller of the service's updateItem may pass
ServicePayloads == { [matchConfidence |-> 150 * Unit] }

\* update payloads a caller of the later revision's updateItem may pass
RevisionPayloads == { [status |-> "found"] }

\* .update(updates): every column the payload names is overwritten
OverwriteColumns(row, updates) ==
  [f \in DOMAIN row |-> IF f \in DOMAIN updates THEN updates[f] ELSE row[f]]

\* updateItem of the later service revision
updateItemRevised(id, updates) ==
  /\ \E i \in DOMAIN store :
       /\ store[i].id = id
       /\ store' = [store EXCEPT ![i] = OverwriteColumns(store[i], updates)]
       /\ store' # store
  /\ UNCHANGED <<nextId, calls, url, meta, argA, argB, scores>>

\* a report the caller of the later revision's createItem hands over with a
\* colorProfile and an objectType of its own and no labels
RevisedInputs ==
  { SuppliedRow("lost", RankRows.lostPhone.category, RankRows.lostPhone.title,
                RankRows.lostPhone.description, RankRows.lostPhone.location,
                "2024-01-10", RankRows.lostPhone.image_url,
                [labels |-> NullList, colorProfile |-> "light",
                 objectType |-> "personal"]) }

\* createItem of the later service revision: the caller's fields with a new
\* id and creation time
createItemRevised(item) ==
  /\ Len(store) < MaxItems
  /\ store' = Append(store,
       [item EXCEPT !.id = nextId, !.created_at = nextId, !.is_matched = FALSE,
                    !.matches = <<>>, !.match_confidence = 0])
  /\ nextId' = nextId + 1
  /\ UNCHANGED <<calls, url, meta, argA, argB, scores>>

NextStore ==
  \/ \E item \in ReportInputs : calls["c1"].pc = "idle" /\ createItem(item)
  \/ \E item \in RevisedInputs : calls["c1"].pc = "idle" /\ createItemRevised(item)
  \/ \E i \in DOMAIN store, updates \in ServicePayloads :
       calls["c1"].pc = "idle" /\ updateItem(store[i].id, updates)
  \/ \E i \in DOMAIN store, updates \in RevisionPayloads :
       calls["c1"].pc = "idle" /\ updateItemRevised(store[i].id, updates)
  \/ \E rev \in {"svc", "calc"}, r \in StoredRows : FindStart("c1", rev, QueryItem(rev, r))
  \/ FindExtract("c1")
  \/ \E fails \in BOOLEAN : FindQuery("c1", fails)
  \/ FindFinish("c1")
  \/ FindReturn("c1")

SpecStore == Init /\ [][NextStore]_vars

(***************************************************************************)
(* Two callers looking for matches at once over one table                  *)
(***************************************************************************)
MaxShared == 2

\* a lost report that shares only the color of its image with the found key
LostRedCat ==
  TaggedRow("lost", <<"P","e","t","s">>,
            <<"L","o","s","t"," ","r","e","d"," ","c","a","t">>,
            RankRows.lostPhone.description, RankRows.lostPhone.location,
            "2024-01-10", <<"c","a","t","r","e","d">>)

\* a lost report whose category was never filled in
LostNoCategory == [RankRows.lostPhone EXCEPT !.category = NullText]

CallQueries == RankQueries \cup { LostRedCat, LostNoCategory }

InitCalls ==
  /\ store \in Pools(MaxShared)
  /\ nextId = Len(store) + 1
  /\ calls = [c \in Callers |-> IdleCall]
  /\ url = <<>> /\ meta = NoMeta
  /\ argA = <<>> /\ argB = <<>> /\ scores = NoScores

NextCalls ==
  \E c \in Callers :
    \/ \E rev \in {"svc", "calc"}, q \in CallQueries : FindStart(c, rev, QueryItem(rev, q))
    \/ FindExtract(c)
    \/ \E fails \in BOOLEAN : FindQuery(c, fails)
    \/ FindFinish(c)

SpecCalls == InitCalls /\ [][NextCalls]_vars

(***************************************************************************)
(* Ranking of candidates that score exactly the floor, and of candidates   *)
(* whose scoring raises                                                    *)
(***************************************************************************)
MaxFloor == 3

\* a lost report that shares only the category with the found phones, and
\* with the tagged one the two long words of the title as well
LostPhoneElsewhere ==
  TaggedRow("lost", RankRows.lostPhone.category, RankRows.lostPhone.title,
            RankRows.foundKey.description, <<"P","a","r","k">>, "2024-02-09",
            <<"i","m","g","/","2">>)

FloorQueries == RankQueries \cup { LostPhoneElsewhere }

\* the table with a null in the location column of its k-th row
NullLocationAt(rows, k) == [rows EXCEPT ![k].location = NullText]

\* the tables of at most max rows, at most one of them with a null location
FloorTables(max) ==
  Pools(max) \cup UNION { { NullLocationAt(p, k) : k \in DOMAIN p } : p \in Pools(max) }

InitFloor ==
  /\ store \in FloorTables(MaxFloor)
  /\ nextId = Len(store) + 1
  /\ calls = [c \in Callers |-> IdleCall]
  /\ url = <<>> /\ meta = NoMeta
  /\ argA = <<>> /\ argB = <<>> /\ scores = NoScores

NextFloor ==
  \/ \E rev \in {"svc", "calc"}, q \in FloorQueries : FindStart("c1", rev, QueryItem(rev, q))
  \/ FindExtract("c1")
  \/ \E fails \in BOOLEAN : FindQuery("c1", fails)
  \/ FindFinish("c1")

SpecFloor == InitFloor /\ [][NextFloor]_vars

(***************************************************************************)
(* Properties                                                              *)
(***************************************************************************)
Done(c) == calls[c].pc = "done"

Range(seq) == { seq[i] : i \in DOMAIN seq }

Ids(seq) == { seq[i].id : i \in DOMAIN seq }

\* the score the call's revision gives the i-th candidate the store returned
CandidateScore(c, i) ==
  IF calls[c].rev = "svc"
  THEN ServiceScore(calls[c].item, calls[c].imageMetadata,
                    mapDbItemToItemDetails(calls[c].data[i]))
  ELSE calculateMatchScore(calls[c].item, calls[c].data[i])

\* position in the store's answer of the candidate with this id
DataIndex(c, id) == CHOOSE i \in DOMAIN calls[c].data : calls[c].data[i].id = id

\* C1: every score either scorer returns is an integer between 0 and 100
C1_ScoreIsIntegerPercent ==
  scores # NoScores =>
    \A r \in {scores.svc, scores.calc} :
      ~r.threw => IsInteger(r.value) /\ r.value >= 0 /\ r.value <= 100 * Unit

\* C2: every entry a ranking call returns scores at least the revision's floor
C2_ResultsClearFloor ==
  \A c \in Callers :
    Done(c) =>
      \A i \in DOMAIN calls[c].result :
        EntryScore(calls[c].rev, calls[c].result[i]) >= Floor(calls[c].rev)

\* a call returned some candidates and discarded another for its score alone
C2_Witness ==
  \E c \in Callers :
    /\ Done(c) /\ calls[c].rev = "svc"
    /\ Len(calls[c].result) > 0
    /\ Len(calls[c].data) <= 5
    /\ \E i \in DOMAIN calls[c].data :
         /\ calls[c].data[i].id \notin Ids(calls[c].result)
         /\ CandidateScore(c, i) < Floor("svc")

\* C3: a ranking call returns at most five entries
C3_AtMostLimit ==
  \A c \in Callers : Done(c) => Len(calls[c].result) <= 5

\* C4: the entries are in descending order of score, and no candidate that
\* cleared the floor and was left out scores higher than a returned entry
C4_DescendingAndBest ==
  \A c \in Callers :
    Done(c) /\ ~calls[c].threw =>
      LET res == calls[c].result
          rev == calls[c].rev
      IN /\ \A i \in 1..(Len(res) - 1) :
              EntryScore(rev, res[i]) >= EntryScore(rev, res[i + 1])
         /\ \A i \in DOMAIN calls[c].data :
              ( /\ CandidateScore(c, i) >= Floor(rev)
                /\ calls[c].data[i].id \notin Ids(res) )
              => \A j \in DOMAIN res : EntryScore(rev, res[j]) >= CandidateScore(c, i)

\* a call truncated its result and returned entries of different scores
C4_Witness ==
  \E c \in Callers :
    /\ Done(c) /\ calls[c].rev = "svc"
    /\ Len(calls[c].result) = 5
    /\ EntryScore("svc", calls[c].result[1]) > EntryScore("svc", calls[c].result[5])
    /\ \E i \in DOMAIN calls[c].data :
         /\ calls[c].data[i].id \notin Ids(calls[c].result)
         /\ CandidateScore(c, i) >= Floor("svc")
    /\ CandidateScore(c, 1) < CandidateScore(c, Len(calls[c].data))

\* C5: two returned entries of equal score keep the order the store gave them
C5_StableOrder ==
  \A c \in Callers :
    Done(c) /\ ~calls[c].threw =>
      LET res == calls[c].result
          rev == calls[c].rev
      IN \A i, j \in DOMAIN res :
           i < j /\ EntryScore(rev, res[i]) = EntryScore(rev, res[j])
           => DataIndex(c, res[i].id) < DataIndex(c, res[j].id)

\* a call returned two entries of equal score next to an entry of another score
C5_Witness ==
  \E c \in Callers :
    /\ Done(c) /\ Len(calls[c].result) >= 3
    /\ \E i, j, k \in DOMAIN calls[c].result :
         /\ i < j
         /\ EntryScore(calls[c].rev, calls[c].result[i])
              = EntryScore(calls[c].rev, calls[c].result[j])
         /\ EntryScore(calls[c].rev, calls[c].result[k])
              # EntryScore(calls[c].rev, calls[c].result[i])

\* C6: a ranking call reads, scores and returns only items of the status
\* opposite to the query's, never the query item itself
C6_OppositeStatusOnly ==
  \A c \in Callers :
    calls[c].pc \in {"respond", "done"} =>
      /\ \A i \in DOMAIN calls[c].data :
           /\ calls[c].data[i].status # calls[c].item.status
           /\ calls[c].data[i].status = oppositeStatus(calls[c].item)
           /\ calls[c].data[i].id # calls[c].item.id
      /\ \A i \in DOMAIN calls[c].result :
           /\ calls[c].result[i].status # calls[c].item.status
           /\ calls[c].result[i].id # calls[c].item.id

\* a call for a stored item returned matches while the table also held
\* another item of the query's status
C6_Witness ==
  \E c \in Callers :
    /\ Done(c) /\ Len(calls[c].result) > 0
    /\ \E i, j \in DOMAIN store :
         /\ i # j
         /\ store[i].id = calls[c].item.id
         /\ store[j].status = calls[c].item.status
         /\ ~store[j].is_matched

MatchesNoKeyword(u) ==
  u # NullText /\ \A k \in Keywords : ~includes(toLowerCase(u), k)

\* C7 as stated: an image url with no keyword yields the labels item, object,
\* lost-found, the colorProfile unknown and the objectType item
C7_FallbackUnknown ==
  (meta # NoMeta /\ MatchesNoKeyword(url)) =>
    /\ Range(meta.labels) = {"item", "object", "lost-found"}
    /\ meta.colorProfile = "unknown"
    /\ meta.objectType = "item"

\* C7: an image url with no keyword yields the labels item, object,
\* lost-found, the colorProfile mixed and the objectType item
C7_FallbackMixed ==
  (meta # NoMeta /\ MatchesNoKeyword(url)) =>
    /\ meta.labels = <<"item", "object", "lost-found">>
    /\ meta.colorProfile = "mixed"
    /\ meta.objectType = "item"

\* the extractor has run on the empty url
C7_Witness == meta # NoMeta /\ url = <<>>

\* C8: when the extractor raises inside a ranking call the query is scored
\* with the labels item, object, lost-found, the colorProfile unknown and the
\* objectType item, and the call completes
C8_FailureYieldsDocumentedFallback ==
  \A c \in Callers :
    ( /\ calls[c].pc \in {"query", "respond", "done"}
      /\ calls[c].rev = "svc"
      /\ Len(StoredMetadata(calls[c].item).labels) = 0
      /\ extractRaises(calls[c].item.imageUrl) )
    => /\ Range(calls[c].imageMetadata.labels) = {"item", "object", "lost-found"}
       /\ calls[c].imageMetadata.colorProfile = "unknown"
       /\ calls[c].imageMetadata.objectType = "item"
       /\ ~calls[c].threw

C10_ScoreSymmetric ==
  scores # NoScores =>
    /\ scores.svc = scores.svcRev
    /\ scores.calc = scores.calcRev

\* rows q and c carry the same category, colorProfile and objectType
SameTags(q, c) ==
  /\ q.category # NullText /\ q.category = c.category
  /\ q.color_profile \notin {NullStr, ""} /\ q.color_profile = c.color_profile
  /\ q.object_type \notin {NullStr, ""} /\ q.object_type = c.object_type

C12_SelfScoreIsMaximal ==
  scores # NoScores =>
    /\ (~scores.svc.threw /\ ~scores.svcSelf.threw)
         => scores.svcSelf.value >= scores.svc.value
    /\ (~scores.calc.threw /\ ~scores.calcSelf.threw)
         => scores.calcSelf.value >= scores.calc.value

\* the row with another date
WithDate(row, d) == [row EXCEPT !.date = d]

UnparseableDate(row) == DateGetTime(row.date).nan

\* C18: when the date of the query or of the candidate cannot be parsed, each
\* scorer returns what it returns for the same pair with dates a month
\* apart (nothing for the date, every other signal as usual), an integer
\* between 0 and 100, and raises nothing the same pair with good dates
\* does not raise
C18_UnparseableDateScoresZero ==
  (scores # NoScores /\ (UnparseableDate(argA) \/ UnparseableDate(argB))) =>
    LET a == WithDate(argA, "2024-01-10")
        b == WithDate(argB, "2024-02-09")
    IN /\ scores.svc = ServiceScoreOf(a, b)
       /\ scores.calc = CalcScoreOf(a, b)
       /\ \A r \in {scores.svc, scores.calc} :
            ~r.threw => IsInteger(r.value) /\ r.value >= 0 /\ r.value <= 100 * Unit

\* a query whose date cannot be parsed was scored against a candidate that
\* matches it on other signals
C18_Witness ==
  /\ scores # NoScores
  /\ UnparseableDate(argA) /\ ~UnparseableDate(argB)
  /\ ~scores.svc.threw /\ scores.svc.value >= 40 * Unit
  /\ ~scores.calc.threw /\ scores.calc.value >= 30 * Unit
  /\ scores.calc.value < 100 * Unit

\* the labels of a stored array, none for a missing one
LabelSet(labels) == IF labels = NullList THEN {} ELSE Range(labels)

\* the tags the call's revision scores the query with
QueryTags(c) ==
  IF calls[c].rev = "svc" THEN calls[c].imageMetadata
  ELSE [labels |-> IF calls[c].item.image_labels = NullList THEN <<>>
                   ELSE calls[c].item.image_labels,
        colorProfile |-> calls[c].item.color_profile,
        objectType |-> calls[c].item.object_type]

\* the words of a text that count for word overlap
LongWords(text) ==
  { w \in Range(split(toLowerCase(text))) : Len(w) > 3 }

\* the query of call c and the candidate row share no category, no label and
\* no location substring, and their dates are 30 days apart
SharesNothingListed(c, row) ==
  /\ calls[c].item.category # NullText /\ row.category # NullText
  /\ toLowerCase(calls[c].item.category) # toLowerCase(row.category)
  /\ Range(QueryTags(c).labels) \cap LabelSet(row.image_labels) = {}
  /\ calls[c].item.location # NullText /\ row.location # NullText
  /\ ~includes(toLowerCase(calls[c].item.location), toLowerCase(row.location))
  /\ ~includes(toLowerCase(row.location), toLowerCase(calls[c].item.location))
  /\ ~DateGetTime(calls[c].item.date).nan /\ ~DateGetTime(row.date).nan
  /\ Abs(DateGetTime(calls[c].item.date).t - DateGetTime(row.date).t) = 30 * Unit

\* they share no colorProfile, no objectType and no word of more than three
\* letters in title or description either
SharesNoOtherSignal(c, row) ==
  /\ QueryTags(c).colorProfile # row.color_profile
  /\ QueryTags(c).objectType # row.object_type
  /\ calls[c].item.title # NullText /\ row.title # NullText
  /\ LongWords(calls[c].item.title) \cap LongWords(row.title) = {}
  /\ calls[c].item.description # NullText /\ row.description # NullText
  /\ LongWords(calls[c].item.description) \cap LongWords(row.description) = {}

IsPool(rows, max) ==
  /\ Len(rows) <= max
  /\ \A i \in DOMAIN rows :
       \E kind \in RankKinds :
         rows[i] = [RankRows[kind] EXCEPT !.id = i, !.created_at = i]

\* C16: a ranking call leaves its inputs as they were: the query item is the
\* one the caller passed, the records the store returned keep every field
\* (their match_confidence included), and the table is unchanged
C16_InputsNotMutated ==
  /\ IsPool(store, MaxShared)
  /\ \A c \in Callers :
       /\ calls[c].pc # "idle" =>
            calls[c].item \in { QueryItem(calls[c].rev, q) : q \in CallQueries }
       /\ (calls[c].pc \in {"respond", "done"} /\ ~calls[c].error) =>
            calls[c].data = SelectCandidates(store, oppositeStatus(calls[c].item))

\* a call returned entries that carry a score while the records it was given
\* and the query still carry none
C16_Witness ==
  \A rev \in {"svc", "calc"} :
    \E c \in Callers :
      /\ Done(c) /\ calls[c].rev = rev /\ Len(calls[c].result) > 0
      /\ \A i \in DOMAIN calls[c].result :
           /\ EntryScore(rev, calls[c].result[i]) > 0
           /\ calls[c].data[DataIndex(c, calls[c].result[i].id)].match_confidence = 0
      /\ EntryScore(rev, calls[c].item) = 0

\* the query lacks a field every report must have
MissingRequired(item) ==
  \/ item.category = NullText \/ item.title = NullText
  \/ item.description = NullText

\* C17: a ranking call for a query that lacks a required field ends in an
\* error, without a result list
C17_MalformedQueryRejected ==
  \A c \in Callers :
    (Done(c) /\ MissingRequired(calls[c].item)) =>
      calls[c].threw /\ calls[c].result = <<>>

\* the outcome of a call that runs from start to end with no other call
\* in flight
RunAlone(rev, item, rows, fails) ==
  LET data == IF fails THEN <<>> ELSE SelectCandidates(rows, oppositeStatus(item))
  IN IF rev = "svc" THEN ServiceRank(item, QueryMetadata(item), data, fails)
     ELSE CalcRank(item, data, fails)

Outcome(c) == [threw |-> calls[c].threw, value |-> calls[c].result]

C20_ConcurrentCallsIsolated ==
  \A c \in Callers :
    Done(c) =>
      Outcome(c) = RunAlone(calls[c].rev, calls[c].item, store, calls[c].error)

\* two calls for different queries overlapped, one of them extracting
\* metadata, and returned different results
C20_Witness ==
  /\ \A c \in Callers : Done(c) /\ ~calls[c].error /\ calls[c].rev = "svc"
  /\ calls["c1"].item # calls["c2"].item
  /\ Len(StoredMetadata(calls["c1"].item).labels) = 0
  /\ Len(StoredMetadata(calls["c2"].item).labels) > 0
  /\ Len(calls["c1"].result) > 0 /\ Len(calls["c2"].result) > 0
  /\ calls["c1"].result # calls["c2"].result

\* C14: the match_confidence of every row of the table is between 0 and 100
C14_ConfidenceInRange ==
  \A i \in DOMAIN store :
    store[i].match_confidence >= 0 /\ store[i].match_confidence <= 100 * Unit

\* C15: no step changes the id or the status of a row of the table
C15_IdAndStatusImmutable ==
  [][\A i \in DOMAIN store :
       /\ i \in DOMAIN store'
       /\ store'[i].id = store[i].id
       /\ store'[i].status = store[i].status]_vars

\* the row with another category
WithCategory(row, cat) == [row EXCEPT !.category = cat]

\* C21: each scorer gives two items whose categories differ only in letter
\* case what it gives them when the categories are the same string, and two
\* items whose categories differ otherwise what it gives them when the
\* candidate's category is an unrelated one
C21_CategoryCaseInsensitive ==
  (scores # NoScores /\ argA.category # NullText /\ argB.category # NullText) =>
    LET same == toLowerCase(argA.category) = toLowerCase(argB.category)
        b == WithCategory(argB, IF same THEN argA.category ELSE <<"?">>)
    IN /\ scores.svc = ServiceScoreOf(argA, b)
       /\ scores.calc = CalcScoreOf(argA, b)

\* the row with other labels
WithLabels(row, labels) == [row EXCEPT !.image_labels = labels]

\* 5 for each label the two sets share, 20 at most
LabelPoints(labels1, labels2) ==
  Min(20 * Unit, 5 * Unit * Cardinality(labels1 \cap labels2))

\* C22: each scorer gives a pair what it gives the same pair with a candidate
\* that carries no label, plus 5 for every distinct label the query's and the
\* candidate's labels share, 20 at most (the sum capped at 100)
C22_LabelOverlapFivePerSharedLabel ==
  scores # NoScores =>
    LET bare == WithLabels(argB, <<>>)
        svcBase == ServiceScoreOf(argA, bare)
        calcBase == CalcScoreOf(argA, bare)
        svcLabels == Range(QueryMetadata(mapDbItemToItemDetails(argA)).labels)
    IN /\ (~scores.svc.threw /\ svcBase.value < 100 * Unit) =>
            scores.svc.value
              = Min(100 * Unit,
                    svcBase.value + LabelPoints(svcLabels, LabelSet(argB.image_labels)))
       /\ (~scores.calc.threw /\ calcBase.value < 100 * Unit) =>
            scores.calc.value
              = Min(100 * Unit,
                    calcBase.value + LabelPoints(LabelSet(argA.image_labels),
                                                 LabelSet(argB.image_labels)))

\* the row with another title
WithTitle(row, title) == [row EXCEPT !.title = title]

\* C23: each scorer gives a pair what it gives the same pair with a candidate
\* whose title has no word, plus 10 for every distinct word of more than three
\* characters that both lower-cased titles contain (the sum capped at 100)
C23_TitleTenPerSharedToken ==
  (scores # NoScores /\ argA.title # NullText /\ argB.title # NullText) =>
    LET bare == WithTitle(argB, <<"?">>)
        svcBase == ServiceScoreOf(argA, bare)
        calcBase == CalcScoreOf(argA, bare)
        points == 10 * Unit * Cardinality(LongWords(argA.title) \cap LongWords(argB.title))
    IN /\ (~scores.svc.threw /\ svcBase.value < 100 * Unit) =>
            scores.svc.value = Min(100 * Unit, svcBase.value + points)
       /\ (~scores.calc.threw /\ calcBase.value < 100 * Unit) =>
            scores.calc.value = Min(100 * Unit, calcBase.value + points)

\* the row with another location
WithLocation(row, location) == [row EXCEPT !.location = location]

\* one lower-cased location is a substring of the other
LocationsOverlap(l1, l2) ==
  \/ includes(toLowerCase(l1), toLowerCase(l2))
  \/ includes(toLowerCase(l2), toLowerCase(l1))

\* C24: each scorer gives a pair what it gives the same pair at two unrelated
\* locations, plus 15 exactly when one lower-cased location is a substring of
\* the other (the sum capped at 100)
C24_LocationSubstringEitherWay ==
  (scores # NoScores /\ argA.location # NullText /\ argB.location # NullText) =>
    LET a == WithLocation(argA, <<"?", "1">>)
        b == WithLocation(argB, <<"?", "2">>)
        svcBase == ServiceScoreOf(a, b)
        calcBase == CalcScoreOf(a, b)
        points == IF LocationsOverlap(argA.location, argB.location)
                  THEN 15 * Unit ELSE 0
    IN /\ (~scores.svc.threw /\ svcBase.value < 100 * Unit) =>
            scores.svc.value = Min(100 * Unit, svcBase.value + points)
       /\ (~scores.calc.threw /\ calcBase.value < 100 * Unit) =>
            scores.calc.value = Min(100 * Unit, calcBase.value + points)

\* the dates Date can parse among those the reports carry
ParsedDates ==
  { "2024-01-10", "2024-01-10T12:00:00Z", "2024-01-11", "2024-01-14",
    "2024-01-18", "2024-02-09" }

\* the absolute difference of two dates, in days
DayDifference(d1, d2) == Abs(DateGetTime(d1).t - DateGetTime(d2).t)

\* max(0, 10 - d)
LinearRule(d) == Max(0, 10 * Unit - d)

\* 10 up to 3 days, 5 up to 7 days, nothing beyond
SteppedRule(d) ==
  IF d <= 3 * Unit THEN 10 * Unit ELSE IF d <= 7 * Unit THEN 5 * Unit ELSE 0

\* what the service adds to the pair's score when the pair carries these dates
ServiceDateShare(d1, d2) ==
  ServiceScoreOf(WithDate(argA, d1), WithDate(argB, d2)).value
    - ServiceScoreOf(WithDate(argA, "2024-01-10"), WithDate(argB, "2024-02-09")).value

\* what the later revision adds to the pair's score when the pair carries
\* these dates
CalcDateShare(d1, d2) ==
  CalcScoreOf(WithDate(argA, d1), WithDate(argB, d2)).value
    - CalcScoreOf(WithDate(argA, "2024-01-10"), WithDate(argB, "2024-02-09")).value

\* C25: for a pair that scores at most 90 without its dates, what each scorer
\* adds for the dates is max(0, 10 - d) at every day difference d, or is the
\* stepped amount (10 up to 3 days, 5 up to 7, 0 beyond) at every d
C25_DateRuleIsLinearOrStepped ==
  scores # NoScores =>
    LET a == WithDate(argA, "2024-01-10")
        b == WithDate(argB, "2024-02-09")
    IN /\ (~ServiceScoreOf(a, b).threw /\ ServiceScoreOf(a, b).value <= 90 * Unit) =>
            \/ \A d1, d2 \in ParsedDates :
                 ServiceDateShare(d1, d2) = LinearRule(DayDifference(d1, d2))
            \/ \A d1, d2 \in ParsedDates :
                 ServiceDateShare(d1, d2) = SteppedRule(DayDifference(d1, d2))
       /\ (~CalcScoreOf(a, b).threw /\ CalcScoreOf(a, b).value <= 90 * Unit) =>
            \/ \A d1, d2 \in ParsedDates :
                 CalcDateShare(d1, d2) = LinearRule(DayDifference(d1, d2))
            \/ \A d1, d2 \in ParsedDates :
                 CalcDateShare(d1, d2) = SteppedRule(DayDifference(d1, d2))

\* the object-type groups of the extractor in the order of its table: the
\* keywords of the group and the objectType it stands for
ObjectTypeTable ==
  << << { <<"c","a","t">>, <<"p","e","t">> }, "animal" >>,
     << { <<"d","o","g">> }, "animal" >>,
     << { <<"p","h","o","n","e">>, <<"m","o","b","i","l","e">> }, "electronics" >>,
     << { <<"w","a","l","l","e","t">>, <<"p","u","r","s","e">> }, "personal" >>,
     << { <<"k","e","y">> }, "personal" >> >>

\* the color words of the extractor in the order of its table
ColorTable ==
  << << { <<"b","l","a","c","k">> }, "dark" >>,
     << { <<"w","h","i","t","e">> }, "light" >>,
     << { <<"b","l","u","e">> }, "cool" >>,
     << { <<"r","e","d">>, <<"o","r","a","n","g","e">> }, "warm" >>,
     << { <<"g","r","e","e","n">> }, "natural" >> >>

\* the entries of a table one of whose keywords the lower-cased url contains
Matching(table, u) ==
  { i \in DOMAIN table : \E k \in table[i][1] : includes(toLowerCase(u), k) }

\* the value of the first matching entry
FirstMatch(table, u) ==
  table[CHOOSE i \in Matching(table, u) : \A j \in Matching(table, u) : i <= j][2]

\* C26: for an image url that contains keywords of some object-type groups the
\* objectType is that of the first matching group in table order, and for one
\* that contains some color words the colorProfile is that of the first
\* matching color in table order
C26_FirstMatchWins ==
  (meta # NoMeta /\ url # NullText) =>
    /\ Matching(ObjectTypeTable, url) # {} =>
         meta.objectType = FirstMatch(ObjectTypeTable, url)
    /\ Matching(ColorTable, url) # {} =>
         meta.colorProfile = FirstMatch(ColorTable, url)

\* the row with other tags
WithColor(row, color) == [row EXCEPT !.color_profile = color]

WithType(row, type) == [row EXCEPT !.object_type = type]

Missing(str) == str \in {NullStr, ""}

NoLabels(row) == row.image_labels \in {NullList, <<>>}

\* the service scores the query with the tags it has stored
\* (it extracts tags for a query that has no label)
ScoredAsStored(q) == ~NoLabels(q)

\* C27: when the query or the candidate has no colorProfile, no objectType or
\* no labels, each scorer gives the pair what it gives it with two unrelated
\* values in that field, and raises nothing that pair does not raise; for
\* the service the query's tags are those it has stored with its labels
C27_MissingTagContributesZero ==
  scores # NoScores =>
    /\ (Missing(argA.color_profile) \/ Missing(argB.color_profile)) =>
         /\ scores.calc = CalcScoreOf(WithColor(argA, "?1"), WithColor(argB, "?2"))
         /\ (Missing(argB.color_profile) \/ ScoredAsStored(argA)) =>
              scores.svc = ServiceScoreOf(WithColor(argA, "?1"), WithColor(argB, "?2"))
    /\ (Missing(argA.object_type) \/ Missing(argB.object_type)) =>
         /\ scores.calc = CalcScoreOf(WithType(argA, "?1"), WithType(argB, "?2"))
         /\ (Missing(argB.object_type) \/ ScoredAsStored(argA)) =>
              scores.svc = ServiceScoreOf(WithType(argA, "?1"), WithType(argB, "?2"))
    /\ (NoLabels(argA) \/ NoLabels(argB)) =>
         /\ scores.calc = CalcScoreOf(WithLabels(argA, <<"?1">>), WithLabels(argB, <<"?2">>))
         /\ NoLabels(argB) =>
              scores.svc = ServiceScoreOf(argA, WithLabels(argB, <<"?2">>))

\* the tags of the row: the stored columns as the extractor's result is shaped
RowTags(row) ==
  [labels |-> row.image_labels, colorProfile |-> row.color_profile,
   objectType |-> row.object_type]

\* the row carries the tags it was created with: those the caller of the
\* later revision's createItem supplied, or those the service's createItem
\* extracted from the image url
KeepsCreationTags(row) ==
  \/ \E item \in RevisedInputs : RowTags(row) = RowTags(item)
  \/ RowTags(row) = extractImageMetadata(row.image_url)

\* C28: the service extracts metadata for a query only when the query has no
\* label, no colorProfile and no objectType; a query that carries a
\* colorProfile or an objectType is scored with the stored value; and every
\* row of the table keeps the tags it was created with
C28_ExtractionOnlyFillsEmptyTags ==
  /\ \A c \in Callers :
       calls[c].rev = "svc" =>
         /\ calls[c].pc = "extract" =>
              /\ calls[c].item.imageLabels \in {NullList, <<>>}
              /\ Missing(calls[c].item.colorProfile)
              /\ Missing(calls[c].item.objectType)
         /\ calls[c].pc \in {"query", "respond", "done"} =>
              /\ ~Missing(calls[c].item.colorProfile) =>
                   calls[c].imageMetadata.colorProfile = calls[c].item.colorProfile
              /\ ~Missing(calls[c].item.objectType) =>
                   calls[c].imageMetadata.objectType = calls[c].item.objectType
  /\ \A i \in DOMAIN store : KeepsCreationTags(store[i])

\* the candidates of call c that score at least the floor of its revision
AtOrAboveFloor(c) ==
  { i \in DOMAIN calls[c].data : CandidateScore(c, i) >= Floor(calls[c].rev) }

\* C29: a call that scores every candidate discards one only if its score is
\* strictly below the floor: when at most five candidates score at or above
\* the floor (any number in the later revision, which has no limit) each of
\* them is returned, a candidate that scores exactly the floor included
C29_FloorInclusive ==
  \A c \in Callers :
    ( /\ Done(c) /\ ~calls[c].threw /\ ~calls[c].error
      /\ \A i \in DOMAIN calls[c].data : calls[c].data[i].location # NullText
      /\ (calls[c].rev = "calc" \/ Cardinality(AtOrAboveFloor(c)) <= 5) )
    => \A i \in AtOrAboveFloor(c) : calls[c].data[i].id \in Ids(calls[c].result)

\* a call of the revision returned a candidate that scores exactly the floor
\* and discarded another that scores less
ReturnedAtFloor(rev) ==
  \E c \in Callers :
    /\ Done(c) /\ calls[c].rev = rev /\ ~calls[c].threw
    /\ \E i \in DOMAIN calls[c].result :
         EntryScore(rev, calls[c].result[i]) = Floor(rev)
    /\ \E i \in DOMAIN calls[c].data :
         /\ CandidateScore(c, i) < Floor(rev)
         /\ calls[c].data[i].id \notin Ids(calls[c].result)

\* the service returned two candidates that score exactly 40
C29_Witness ==
  /\ ReturnedAtFloor("svc")
  /\ \E i, j \in DOMAIN calls["c1"].result :
       /\ i # j
       /\ calls["c1"].result[i].matchConfidence = 40 * Unit
       /\ calls["c1"].result[j].matchConfidence = 40 * Unit

\* the read of the store failed, or a candidate it returned has a null
\* location, on which scoring raises
RankingFails(c) ==
  \/ calls[c].error
  \/ \E i \in DOMAIN calls[c].data : calls[c].data[i].location = NullText

\* C30: a ranking call whose store read fails or in which scoring a candidate
\* raises ends with an error or with the empty list, and the service's call
\* ends with the empty list and no error
C30_NoPartialResult ==
  \A c \in Callers :
    (Done(c) /\ RankingFails(c)) =>
      /\ calls[c].threw \/ calls[c].result = <<>>
      /\ calls[c].rev = "svc" => ~calls[c].threw /\ calls[c].result = <<>>

\* the service returned the empty list for a table that holds a candidate
\* with a null location next to one that clears the floor
C30_Witness ==
  \E c \in Callers :
    /\ Done(c) /\ calls[c].rev = "svc" /\ ~calls[c].error
    /\ calls[c].item.location # NullText
    /\ \E i, j \in DOMAIN calls[c].data :
         /\ calls[c].data[i].location = NullText
         /\ calls[c].data[j].location # NullText
         /\ CandidateScore(c, j) >= Floor("svc")
    /\ calls[c].result = <<>> /\ ~calls[c].threw

====
